---- MODULE Spec2Model ----
(***************************************************************************)
(* The newsletter digest job of newsletter_processor.py: main() walks the  *)
(* configured senders, queries the mail service for an unread message of   *)
(* each, fetches and decodes it, archives it, summarizes the combined      *)
(* content, and finally sends one digest.                                  *)
(*                                                                         *)
(* Text is a sequence of one-character strings.  The mail service and the  *)
(* summarization service are external: what a query returns, what a        *)
(* message carries, what summary comes back and whether a call raises are  *)
(* nondeterministic choices.  calls and sent record the external calls in  *)
(* the order main() issues them.                                           *)
(***************************************************************************)
EXTENDS Integers, Sequences, FiniteSets, TLC

VARIABLES senders, pc, idx, messages, j, combined_content, summaries,
          mailbox, calls, sent, raised

vars == <<senders, pc, idx, messages, j, combined_content, summaries,
          mailbox, calls, sent, raised>>

----------------------------------------------------------------------------
(* Configuration and bounds *)

NEWSLETTER_SENDERS ==
    << "review@firstround.com", "dan@tldrnewsletter.com",
       "lenny@substack.com", "andrewchen@substack.com" >>

RECIPIENT == "atreya@gmail.com"

\* maxResults of the unread-message query
maxResults == 1

\* the length past which summarize_with_gpt truncates
TruncLimit == 4000

\* how far around TruncLimit the contents of SpecTrunc go
MaxExtra == 6

NL == "\n"

Marker == << ".", ".", "." >>

Alphabet == << "a", "b", "c" >>

\* a text of n characters whose characters differ along its length
Text(n) == [k \in 1..n |-> Alphabet[(k % 3) + 1]]

Hello == << "H", "e", "l", "l", "o" >>

World == << "w", "o", "r", "l", "d" >>

LongText == Text(TruncLimit + 1)

----------------------------------------------------------------------------
(* Messages as the mail service returns them (format='full') *)

NoBody == [hasData |-> FALSE, enc |-> "b64", text |-> << >>]

Body(t) == [hasData |-> TRUE, enc |-> "b64", text |-> t]

\* data that urlsafe_b64decode rejects (incorrect padding), and base64 of
\* bytes that are not UTF-8
BadBody(e) == [hasData |-> TRUE, enc |-> e, text |-> << >>]

Single(b) == [hasParts |-> FALSE, parts |-> << >>, body |-> b]

Multi(ps) == [hasParts |-> TRUE, parts |-> ps, body |-> NoBody]

Payloads ==
    { Single(Body(Hello)),
      Single(Body(LongText)),
      Single(NoBody),
      Single(Body(<< >>)),
      Multi(<< Body(World), Body(Hello) >>),
      Multi(<< NoBody, Body(Hello) >>),
      Multi(<< >>),
      Single(BadBody("notb64")),
      Multi(<< BadBody("notutf8") >>) }

\* what the summarization service may answer
Summaries == { "- point one", "" }

\* what datetime.now() may format to
Dates == { "2026-11-05", "2026-11-06" }

Labels == { "UNREAD", "INBOX" }

----------------------------------------------------------------------------
(* Pure parts of the code *)

Ok(t) == [exc |-> "none", text |-> t]

Exc(e) == [exc |-> e, text |-> << >>]

\* a decode that swallows its errors
b64decode_mut(d) == Ok(d.text)

\* base64.urlsafe_b64decode(data).decode()
b64decode(d) ==
    CASE d.enc = "notb64"  -> Exc("binascii.Error")
      [] d.enc = "notutf8" -> Exc("UnicodeDecodeError")
      [] OTHER             -> Ok(d.text)

\* body.get('data', ''): the empty string when the key is absent
get_data(b) == IF b.hasData THEN b ELSE Body(<< >>)

get_email_content(payload) ==
    IF payload.hasParts /\ payload.parts = << >>
    THEN Exc("IndexError")
    ELSE LET data == IF payload.hasParts
                     THEN get_data(payload.parts[1])
                     ELSE get_data(payload.body)
         IN  IF data.enc # "b64" \/ data.text # << >>
             THEN b64decode(data)
             ELSE Ok(<< >>)

\* an accumulation that leaves the separator out
combine_mut(buf, content) == buf \o content

\* combined_content += content + "\n\n"
combine(buf, content) == buf \o content \o << NL, NL >>

\* a truncation that is off by one at the limit
truncated_content_mut(content) ==
    IF Len(content) >= TruncLimit
    THEN SubSeq(content, 1, TruncLimit) \o Marker
    ELSE content

\* content[:4000] + "..." if len(content) > 4000 else content
truncated_content(content) ==
    IF Len(content) > TruncLimit
    THEN SubSeq(content, 1, TruncLimit) \o Marker
    ELSE content

\* if messages:
has_messages(msgs) == msgs # << >>

\* if combined_content:
has_content(buf) == buf # << >>

\* a send that is not guarded
has_summaries_mut(d) == TRUE

\* if summaries:
has_summaries(d) == d # << >>

\* a dict in insertion order: a sequence of entries with distinct keys
Keys(d) == [k \in 1..Len(d) |-> d[k].sender]

dict_set(d, key, val) ==
    IF \E k \in 1..Len(d) : d[k].sender = key
    THEN [k \in 1..Len(d) |->
            IF d[k].sender = key THEN [sender |-> key, summary |-> val] ELSE d[k]]
    ELSE Append(d, [sender |-> key, summary |-> val])

\* a summary stored under a fixed key
store_summary_mut(d, sender, summary) == dict_set(d, NEWSLETTER_SENDERS[1], summary)

\* summaries[sender] = summary
store_summary(d, sender, summary) == dict_set(d, sender, summary)

\* the body send_summary_email composes, piece by piece
RECURSIVE blocks(_)
blocks(d) ==
    IF d = << >> THEN << >>
    ELSE << NL, "From ", d[1].sender, ":", NL, d[1].summary, NL >> \o blocks(Tail(d))

\* a body whose blocks come out in reverse order
RECURSIVE blocks_mut(_)
blocks_mut(d) ==
    IF d = << >> THEN << >>
    ELSE blocks_mut(Tail(d)) \o << NL, "From ", d[1].sender, ":", NL, d[1].summary, NL >>

email_body_mut(d, date_str) ==
    << "Newsletter Summaries for ", date_str, NL, NL >> \o blocks_mut(d)

\* email_content: the header line, then one block per entry of summaries
email_body(d, date_str) ==
    << "Newsletter Summaries for ", date_str, NL, NL >> \o blocks(d)

email_subject(date_str) == << "Newsletter Summaries - ", date_str >>

----------------------------------------------------------------------------
(* Control flow of main() *)

\* an exception that is swallowed, the run going on to the send
uncaught_mut == "finish"

\* where an exception raised inside main() leaves the run
uncaught == "failed"

\* a loop that skips every other sender
next_sender_mut(k) == k + 2

\* for sender in NEWSLETTER_SENDERS: the position of the next iteration
next_sender(k) == k + 1

\* the loop over the senders goes on, or the code after it runs
sender_pc(k) == IF k <= Len(senders) THEN "query" ELSE "finish"

\* the code after "for message in messages": summarize, or the next sender
after_loop(buf) == IF has_content(buf) THEN "summarize" ELSE "advance"

\* the loop over the messages goes on, or the code after it runs
message_pc(k, msgs, buf) == IF k <= Len(msgs) THEN "fetch" ELSE after_loop(buf)

\* a fetch that is not followed by the archive call
after_fetch_mut == "summarize"

\* the statement after content = get_email_content(...) and the +=
after_fetch == "archive"

Call(op, sender, id, ok) ==
    [op |-> op, sender |-> sender, id |-> id, ok |-> ok, n |-> 0,
     input |-> << >>, content |-> << >>]

MsgId(k, n) == (k - 1) * maxResults + n

\* what a query for the sender at position k may return: at most maxResults
\* unread messages of that sender, each with some payload
QueryResults(k, P) ==
    { [ids |-> [n \in 1..len |-> MsgId(k, n)], payloads |-> ps] :
        len \in 0..maxResults, ps \in UNION { [1..m -> P] : m \in 0..maxResults } }

Goto(t) ==
    IF t = "advance"
    THEN /\ idx' = next_sender(idx)
         /\ pc' = sender_pc(next_sender(idx))
    ELSE /\ idx' = idx
         /\ pc' = t

Fail(kind) ==
    /\ raised' = kind
    /\ pc' = uncaught

Log(c) == calls' = Append(calls, c)

----------------------------------------------------------------------------
(* The run *)

Init ==
    /\ senders \in { SubSeq(NEWSLETTER_SENDERS, 1, n) : n \in 0..Len(NEWSLETTER_SENDERS) }
    /\ pc = "auth"
    /\ idx = 1
    /\ messages = << >>
    /\ j = 1
    /\ combined_content = << >>
    /\ summaries = << >>
    /\ mailbox = << >>
    /\ calls = << >>
    /\ sent = << >>
    /\ raised = "none"

\* service = get_gmail_service(); summaries = {}
get_gmail_service ==
    /\ pc = "auth"
    /\ pc' = sender_pc(1)
    /\ UNCHANGED <<senders, idx, messages, j, combined_content, summaries,
                   mailbox, calls, sent, raised>>

get_gmail_service_raises ==
    /\ pc = "auth"
    /\ Fail("auth")
    /\ UNCHANGED <<senders, idx, messages, j, combined_content, summaries,
                   mailbox, calls, sent>>

\* messages = get_newsletter_emails(service, sender); if messages: ...
query_emails(P) ==
    /\ pc = "query"
    /\ \E r \in QueryResults(idx, P) :
         /\ Len(r.ids) = Len(r.payloads)
         /\ messages' = r.ids
         /\ mailbox' = [m \in DOMAIN mailbox \cup { r.ids[n] : n \in 1..Len(r.ids) } |->
                IF \E n \in 1..Len(r.ids) : r.ids[n] = m
                THEN [sender |-> senders[idx], labels |-> Labels,
                      payload |-> r.payloads[CHOOSE n \in 1..Len(r.ids) : r.ids[n] = m]]
                ELSE mailbox[m]]
         /\ Log([Call("list", senders[idx], 0, TRUE) EXCEPT !.n = Len(r.ids)])
         /\ IF has_messages(r.ids)
            THEN /\ combined_content' = << >>
                 /\ j' = 1
                 /\ Goto(message_pc(1, r.ids, << >>))
            ELSE /\ UNCHANGED <<combined_content, j>>
                 /\ Goto("advance")
    /\ UNCHANGED <<senders, summaries, sent, raised>>

get_newsletter_emails == query_emails(Payloads)

get_newsletter_emails_raises ==
    /\ pc = "query"
    /\ Log(Call("list", senders[idx], 0, FALSE))
    /\ Fail("query")
    /\ UNCHANGED <<senders, idx, messages, j, combined_content, summaries,
                   mailbox, sent>>

\* content = get_email_content(service, message['id']); combined_content += ...
\* (the get call returns; the decoding may still raise)
fetch_content ==
    /\ pc = "fetch"
    /\ LET id == messages[j]
           r  == get_email_content(mailbox[id].payload)
       IN  /\ Log(Call("get", senders[idx], id, TRUE))
           /\ IF r.exc = "none"
              THEN /\ combined_content' = combine(combined_content, r.text)
                   /\ pc' = after_fetch
                   /\ UNCHANGED raised
              ELSE /\ Fail("decode")
                   /\ UNCHANGED combined_content
    /\ UNCHANGED <<senders, idx, messages, j, summaries, mailbox, sent>>

fetch_content_raises ==
    /\ pc = "fetch"
    /\ Log(Call("get", senders[idx], messages[j], FALSE))
    /\ Fail("fetch")
    /\ UNCHANGED <<senders, idx, messages, j, combined_content, summaries,
                   mailbox, sent>>

\* removeLabelIds: a set difference on the message's labels
remove_labels(box, id) ==
    [box EXCEPT ![id].labels = @ \ { "UNREAD", "INBOX" }]

\* archive_email(service, message['id']), then the next message or the code after the loop
archive_email ==
    /\ pc = "archive"
    /\ Log(Call("modify", senders[idx], messages[j], TRUE))
    /\ mailbox' = remove_labels(mailbox, messages[j])
    /\ j' = j + 1
    /\ Goto(message_pc(j + 1, messages, combined_content))
    /\ UNCHANGED <<senders, messages, combined_content, summaries, sent, raised>>

\* the modify call raises; the service may or may not have applied it
archive_email_raises ==
    /\ pc = "archive"
    /\ Log(Call("modify", senders[idx], messages[j], FALSE))
    /\ \E applied \in BOOLEAN :
         mailbox' = IF applied THEN remove_labels(mailbox, messages[j]) ELSE mailbox
    /\ Fail("archive")
    /\ UNCHANGED <<senders, idx, messages, j, combined_content, summaries, sent>>

SummarizeCall(ok) ==
    [Call("summarize", senders[idx], 0, ok) EXCEPT
        !.input = combined_content,
        !.content = truncated_content(combined_content)]

\* summary = summarize_with_gpt(combined_content); summaries[sender] = summary
summarize_with_gpt ==
    /\ pc = "summarize"
    /\ Log(SummarizeCall(TRUE))
    /\ \E summary \in Summaries :
         summaries' = store_summary(summaries, senders[idx], summary)
    /\ Goto("advance")
    /\ UNCHANGED <<senders, messages, j, combined_content, mailbox, sent, raised>>

summarize_with_gpt_raises ==
    /\ pc = "summarize"
    /\ Log(SummarizeCall(FALSE))
    /\ Fail("summarize")
    /\ UNCHANGED <<senders, idx, messages, j, combined_content, summaries,
                   mailbox, sent>>

Digest(date_str) ==
    [to |-> RECIPIENT, subject |-> email_subject(date_str),
     body |-> email_body(summaries, date_str)]

\* if summaries: send_summary_email(service, summaries)
send_summary_email ==
    /\ pc = "finish"
    /\ has_summaries(summaries)
    /\ \E date_str \in Dates : sent' = Append(sent, Digest(date_str))
    /\ Log(Call("send", RECIPIENT, 0, TRUE))
    /\ pc' = "done"
    /\ UNCHANGED <<senders, idx, messages, j, combined_content, summaries,
                   mailbox, raised>>

send_summary_email_raises ==
    /\ pc = "finish"
    /\ has_summaries(summaries)
    /\ Log(Call("send", RECIPIENT, 0, FALSE))
    /\ Fail("send")
    /\ UNCHANGED <<senders, idx, messages, j, combined_content, summaries,
                   mailbox, sent>>

\* summaries is empty: main() returns without sending
no_summaries ==
    /\ pc = "finish"
    /\ ~has_summaries(summaries)
    /\ pc' = "done"
    /\ UNCHANGED <<senders, idx, messages, j, combined_content, summaries,
                   mailbox, calls, sent, raised>>

Next ==
    \/ get_gmail_service
    \/ get_gmail_service_raises
    \/ get_newsletter_emails
    \/ get_newsletter_emails_raises
    \/ fetch_content
    \/ fetch_content_raises
    \/ archive_email
    \/ archive_email_raises
    \/ summarize_with_gpt
    \/ summarize_with_gpt_raises
    \/ send_summary_email
    \/ send_summary_email_raises
    \/ no_summaries

Spec == Init /\ [][Next]_vars

----------------------------------------------------------------------------
(* The same run with one configured sender and message bodies whose length *)
(* lies around TruncLimit, so that summarize_with_gpt is applied to        *)
(* contents on both sides of the limit                                     *)

TruncPayloads ==
    { Single(Body(Text(n))) :
        n \in (TruncLimit - MaxExtra - 2)..(TruncLimit + MaxExtra) \cup 1..MaxExtra }

InitTrunc ==
    /\ senders = SubSeq(NEWSLETTER_SENDERS, 1, 1)
    /\ pc = "auth"
    /\ idx = 1
    /\ messages = << >>
    /\ j = 1
    /\ combined_content = << >>
    /\ summaries = << >>
    /\ mailbox = << >>
    /\ calls = << >>
    /\ sent = << >>
    /\ raised = "none"

get_newsletter_emails_trunc == query_emails(TruncPayloads)

NextTrunc ==
    \/ get_gmail_service
    \/ get_newsletter_emails_trunc
    \/ fetch_content
    \/ archive_email
    \/ summarize_with_gpt
    \/ summarize_with_gpt_raises
    \/ send_summary_email
    \/ no_summaries

SpecTrunc == InitTrunc /\ [][NextTrunc]_vars

----------------------------------------------------------------------------
(* What the claims speak of, read off the recorded calls *)

Positions == 1..Len(senders)

\* the iteration of the sender at position p has run to its end
Processed(p) == p \in Positions /\ idx > p

CallsWhere(op, sender) ==
    SelectSeq(calls, LAMBDA c : c.op = op /\ c.sender = sender)

MsgsOf(sender) == { id \in DOMAIN mailbox : mailbox[id].sender = sender }

\* the body the code looks at: the first part's when there are parts
FirstBody(payload) == IF payload.hasParts THEN payload.parts[1] ELSE payload.body

NoParts(payload) == payload.hasParts /\ payload.parts = << >>

Malformed(payload) ==
    \/ NoParts(payload)
    \/ FirstBody(payload).hasData /\ FirstBody(payload).enc \in { "notb64", "notutf8" }

Absent(payload) ==
    /\ ~NoParts(payload)
    /\ \/ ~FirstBody(payload).hasData
       \/ FirstBody(payload).enc = "b64" /\ FirstBody(payload).text = << >>

\* the text a well-formed payload decodes to
BodyText(payload) == IF Absent(payload) THEN << >> ELSE FirstBody(payload).text

\* the query for position p returned exactly one message, and it decodes
OneDecodable(p) ==
    /\ Cardinality(MsgsOf(senders[p])) = 1
    /\ \A id \in MsgsOf(senders[p]) : ~Malformed(mailbox[id].payload)

TextOf(p) == BodyText(mailbox[CHOOSE id \in MsgsOf(senders[p]) : TRUE].payload)

Inputs(cs) == [k \in 1..Len(cs) |-> cs[k].input]

Ids(cs) == [k \in 1..Len(cs) |-> cs[k].id]

SendCalls == SelectSeq(calls, LAMBDA c : c.op = "send")

ListCalls == SelectSeq(calls, LAMBDA c : c.op = "list")

ListSenders == [k \in 1..Len(ListCalls) |-> ListCalls[k].sender]

\* the senders named in the "From" blocks of a digest body, in order
RECURSIVE FromSenders(_)
FromSenders(body) ==
    IF Len(body) < 2 THEN << >>
    ELSE IF body[1] = "From " THEN << body[2] >> \o FromSenders(Tail(Tail(body)))
    ELSE FromSenders(Tail(body))

NoFailure == raised = "none"

----------------------------------------------------------------------------
(* C1 *)

\* C1 as stated: for a processed sender whose query returned one message that
\* decodes to T, the summarization step was invoked exactly once, with T as
\* its input, and the message was archived exactly once.
C1_Original ==
    \A p \in Positions :
        Processed(p) /\ OneDecodable(p) =>
            /\ Inputs(CallsWhere("summarize", senders[p])) = << TextOf(p) >>
            /\ Ids(CallsWhere("modify", senders[p])) = << MsgId(p, 1) >>

\* C1 amended: the input of the one summarization call is T followed by the
\* separator "\n\n" that main() appends to every message; the message is
\* archived exactly once.
C1_Amended ==
    \A p \in Positions :
        Processed(p) /\ OneDecodable(p) =>
            /\ Inputs(CallsWhere("summarize", senders[p])) = << TextOf(p) \o << NL, NL >> >>
            /\ Ids(CallsWhere("modify", senders[p])) = << MsgId(p, 1) >>

C1_Witness ==
    \E p \in Positions :
        /\ Processed(p) /\ OneDecodable(p)
        /\ TextOf(p) = Hello
        /\ Inputs(CallsWhere("summarize", senders[p])) = << Hello \o << NL, NL >> >>
        /\ Len(CallsWhere("modify", senders[p])) = 1

----------------------------------------------------------------------------
(* C2 *)

\* C2 as stated: a processed sender whose only message carries no body data
\* (get_email_content returned the empty string) gets no summarization call
\* and no entry in summaries.
C2_Claim ==
    \A p \in Positions :
        ( /\ Processed(p)
          /\ MsgsOf(senders[p]) # {}
          /\ \A id \in MsgsOf(senders[p]) : Absent(mailbox[id].payload) ) =>
            /\ CallsWhere("summarize", senders[p]) = << >>
            /\ \A k \in 1..Len(summaries) : summaries[k].sender # senders[p]

----------------------------------------------------------------------------
(* C3 *)

\* C3 as stated: no decoding failure aborts the run; a fetched message whose
\* body data is absent or malformed contributes the empty string and is archived.
C3_Original ==
    /\ raised # "decode"
    /\ \A k \in 1..Len(calls) :
         ( /\ calls[k].op = "get" /\ calls[k].ok
           /\ \/ Malformed(mailbox[calls[k].id].payload)
              \/ Absent(mailbox[calls[k].id].payload)
           /\ k = Len(calls) ) =>
             pc = "archive" /\ combined_content = << NL, NL >>

\* C3 amended: absent body data yields the empty string and the run goes on
\* to archive the message; malformed body data (base64 the decoder rejects,
\* bytes that are not text, an empty parts list) raises in get_email_content
\* and aborts the run, the message is not archived and no later call is issued.
C3_Amended ==
    \A k \in 1..Len(calls) :
        (calls[k].op = "get" /\ calls[k].ok) =>
            LET payload == mailbox[calls[k].id].payload
            IN  /\ Absent(payload) =>
                     /\ k = Len(calls) =>
                            /\ NoFailure
                            /\ pc = "archive"
                            /\ combined_content = << NL, NL >>
                     /\ k < Len(calls) =>
                            calls[k + 1].op = "modify" /\ calls[k + 1].id = calls[k].id
                /\ Malformed(payload) =>
                     /\ raised = "decode"
                     /\ pc = "failed"
                     /\ k = Len(calls)
                     /\ mailbox[calls[k].id].labels = Labels

C3_Witness ==
    /\ raised = "decode"
    /\ Len(calls) >= 5
    /\ \E k \in 1..Len(calls) :
         /\ calls[k].op = "get" /\ calls[k].ok
         /\ Absent(mailbox[calls[k].id].payload)
         /\ k < Len(calls)
    /\ calls[Len(calls)].op = "get"
    /\ mailbox[calls[Len(calls)].id].payload = Single(BadBody("notb64"))

----------------------------------------------------------------------------
(* C4 *)

\* C4: in a run that ended with no call failing, no digest was sent if
\* summaries is empty and exactly one if it is not; and a send call is only
\* ever issued once every configured sender has been queried and processed.
C4_SendOnce ==
    /\ (pc = "done" /\ NoFailure) =>
         /\ Len(SendCalls) = (IF summaries = << >> THEN 0 ELSE 1)
         /\ Len(sent) = Len(SendCalls)
    /\ \A k \in 1..Len(calls) :
         calls[k].op = "send" =>
            /\ idx > Len(senders)
            /\ \A p \in Positions :
                 \E q \in 1..(k - 1) : calls[q].op = "list" /\ calls[q].sender = senders[p]

C4_Witness ==
    /\ pc = "done" /\ NoFailure
    /\ Len(senders) = Len(NEWSLETTER_SENDERS)
    /\ Len(summaries) = 1
    /\ Len(sent) = 1

----------------------------------------------------------------------------
(* C5 *)

\* C5: once a query, fetch, archive or summarization call has raised, the
\* messages archived so far are still archived, no send call has been issued,
\* nothing was delivered, and no sender after the failing one has been
\* queried or archived.
C5_Abort ==
    raised \in { "query", "fetch", "decode", "archive", "summarize" } =>
        /\ SendCalls = << >>
        /\ sent = << >>
        /\ \A k \in 1..Len(calls) :
             (calls[k].op = "modify" /\ calls[k].ok) =>
                 mailbox[calls[k].id].labels \cap { "UNREAD", "INBOX" } = {}
        /\ \A p \in Positions :
             p > idx => \A k \in 1..Len(calls) : calls[k].sender # senders[p]
        /\ calls[Len(calls)].op \in { "list", "get", "modify", "summarize" }

C5_Witness ==
    /\ raised = "summarize"
    /\ summaries # << >>
    /\ idx < Len(senders)
    /\ Len(SelectSeq(calls, LAMBDA c : c.op = "modify" /\ c.ok)) = 2

----------------------------------------------------------------------------
(* C6 *)

\* the query for position p was answered with zero messages
ZeroMessages(p) ==
    \E k \in 1..Len(calls) :
        calls[k].op = "list" /\ calls[k].ok /\ calls[k].sender = senders[p] /\ calls[k].n = 0

\* C6: a sender whose query returned zero messages has no fetch, archive or
\* summarization call, is no key of summaries and has no block in a digest.
C6_ZeroMessages ==
    \A p \in Positions :
        ZeroMessages(p) =>
            /\ \A k \in 1..Len(calls) :
                 calls[k].sender = senders[p] => calls[k].op = "list"
            /\ \A k \in 1..Len(summaries) : summaries[k].sender # senders[p]
            /\ \A m \in 1..Len(sent) :
                 \A q \in 1..Len(sent[m].body) : sent[m].body[q] # senders[p]

C6_Witness ==
    /\ pc = "done"
    /\ ZeroMessages(1)
    /\ Len(senders) = 3
    /\ Len(summaries) = 2
    /\ Len(sent) = 1

----------------------------------------------------------------------------
(* C7 *)

\* C7: the queries issued so far are for a prefix of the configured list, one
\* per sender in the configured order; a run in which nothing failed has
\* issued exactly one query per configured sender.
C7_QueryOrder ==
    /\ Len(ListSenders) <= Len(senders)
    /\ ListSenders = SubSeq(senders, 1, Len(ListSenders))
    /\ (pc \in { "finish", "done" } /\ NoFailure) => ListSenders = senders

C7_Witness ==
    /\ pc = "done" /\ NoFailure
    /\ ListSenders = NEWSLETTER_SENDERS
    /\ ListCalls[1].n = 0
    /\ ListCalls[2].n = 1
    /\ ListCalls[4].n = 0

----------------------------------------------------------------------------
(* C8 *)

\* C8: the content submitted to the summarization service is the input itself
\* when the input has at most 4000 characters, and otherwise the first 4000
\* characters of the input followed by "..."; it never exceeds 4003 characters.
C8_Truncation ==
    \A k \in 1..Len(calls) :
        calls[k].op = "summarize" =>
            LET input   == calls[k].input
                content == calls[k].content
            IN  /\ Len(content) <= 4003
                /\ Len(input) <= 4000 => content = input
                /\ Len(input) > 4000 =>
                     /\ Len(content) = 4003
                     /\ \A q \in 1..4000 : content[q] = input[q]
                     /\ \A q \in 4001..4003 : content[q] = "."

C8_Witness ==
    /\ Len(calls) = 4
    /\ calls[4].op = "summarize"
    /\ Len(calls[4].input) = 4001
    /\ Len(calls[4].content) = 4003

----------------------------------------------------------------------------
(* C9 *)

\* the configured senders that got a summary, in configured order
Summarized ==
    SelectSeq(senders, LAMBDA s :
        \E k \in 1..Len(calls) :
            calls[k].op = "summarize" /\ calls[k].ok /\ calls[k].sender = s)

\* C9: the body of a sent digest holds one "From {sender}:" block per entry
\* of summaries, each followed by that sender's summary, in insertion order,
\* which is the configured order of the senders that got a summary; it holds
\* no other block.
C9_Blocks ==
    \A m \in 1..Len(sent) :
        LET body == sent[m].body
        IN  /\ FromSenders(body) = Keys(summaries)
            /\ Keys(summaries) = Summarized
            /\ Len(body) = 4 + 7 * Len(summaries)
            /\ \A k \in 1..Len(summaries) :
                 LET at == 4 + 7 * (k - 1)
                 IN  /\ body[at + 1] = NL
                     /\ body[at + 2] = "From "
                     /\ body[at + 3] = summaries[k].sender
                     /\ body[at + 4] = ":"
                     /\ body[at + 5] = NL
                     /\ body[at + 6] = summaries[k].summary
                     /\ body[at + 7] = NL

C9_Witness ==
    /\ Len(sent) = 1
    /\ Len(senders) = 4
    /\ Len(summaries) = 2
    /\ summaries[1].sender = senders[2]
    /\ summaries[2].sender = senders[4]
    /\ summaries[1].summary # summaries[2].summary

----------------------------------------------------------------------------
(* C10 *)

\* C10: every archive call comes right after the successful fetch call of the
\* same message; a fetch whose content was read is followed by the archive
\* call of that message before any other call; and when the summarization of
\* a sender is called, every message returned for that sender has had its
\* archive call, whatever the summarization then does.
C10_ArchiveAfterFetch ==
    \A k \in 1..Len(calls) :
        /\ calls[k].op = "modify" =>
             /\ k > 1
             /\ calls[k - 1].op = "get" /\ calls[k - 1].ok
             /\ calls[k - 1].id = calls[k].id
        /\ (calls[k].op = "get" /\ calls[k].ok) =>
             /\ k < Len(calls) =>
                    calls[k + 1].op = "modify" /\ calls[k + 1].id = calls[k].id
             /\ k = Len(calls) => pc = "archive" \/ raised = "decode"
        /\ calls[k].op = "summarize" =>
             /\ MsgsOf(calls[k].sender) # {}
             /\ \A id \in MsgsOf(calls[k].sender) :
                  \E q \in 1..(k - 1) : calls[q].op = "modify" /\ calls[q].id = id

C10_Witness ==
    /\ raised = "summarize"
    /\ Len(calls) = 4
    /\ calls[2].op = "get" /\ calls[3].op = "modify" /\ calls[3].ok
    /\ calls[4].op = "summarize" /\ ~calls[4].ok
    /\ mailbox[calls[3].id].labels = {}

====
